---------------------------- MODULE Spec2Model ----------------------------
(***************************************************************************)
(* Voucher lifecycle and payment settlement of the MoWave hotspot backend. *)
(*                                                                         *)
(* The in-memory Database (users, vouchers, payments, sessions), the       *)
(* voucher routes (generate, redeem), the payment routes (initiate,        *)
(* update, cancel), the settlement task that initiate schedules with       *)
(* setImmediate, and the admin routes for vouchers and payments.           *)
(*                                                                         *)
(* Time is counted in hours: every `duration * 60 * 60 * 1000` of the      *)
(* source is `duration` here.  One synchronous stretch of a handler reads  *)
(* one instant `now`.  Node runs one handler stretch at a time, so every   *)
(* action below is one stretch between two points where the event loop     *)
(* can run something else.                                                 *)
(***************************************************************************)
EXTENDS Integers, Sequences, FiniteSets, TLC

(***************************************************************************)
(* Bounds of the model.                                                    *)
(***************************************************************************)
MaxTime == 1          \* the clock runs over 0..MaxTime
MaxPayments == 2      \* payments ever created
MaxVouchers == 3      \* vouchers ever created, the samples included

\* Sessions ever created: one for every voucher, and one more.
MaxSessions == MaxVouchers + 1

(***************************************************************************)
(* JavaScript values.                                                      *)
(***************************************************************************)
null == "null"
undefined == "undefined"
NullTime == 0 - 1     \* a Date field holding null

\* x || null
OrNull(x) == IF x \in {undefined, null, ""} THEN null ELSE x

(***************************************************************************)
(* State.                                                                  *)
(***************************************************************************)
VARIABLES
  now,            \* Date.now(), in hours
  vouchers,       \* db.vouchers: id -> voucher
  payments,       \* db.payments: id -> payment
  sessions,       \* db.sessions: id -> session
  nextVoucherId,  \* vouchers created so far + 1 (stands for uuidv4)
  tasks,          \* payment id -> the settlement task scheduled for it
  resp,           \* the response this step sent; NoResponse after a step
                  \* that is no request
  everSuccess,    \* history: payment ids that have had status success
  users,          \* db.users: id -> user
  nextUserId,     \* users created so far + 1 (stands for uuidv4)
  userTasks,      \* the user requests that await bcrypt.hash, in order
  ret             \* the value the last direct Database call returned

userVars == <<users, nextUserId, userTasks>>

vars == <<now, vouchers, payments, sessions, nextVoucherId, tasks, resp,
          everSuccess, users, nextUserId, userTasks, ret>>


(***************************************************************************)
(* Database (src/unnamed/part_000).                                        *)
(***************************************************************************)
\* The sample vouchers the model constructs: one of each of the first two
\* of the four kinds of createSampleVouchers (the source creates ten of
\* each kind; the others differ in duration, price and dataLimit only).
SampleVouchers ==
  << [duration |-> 1, price |-> 1000, dataLimit |-> "500MB"],
     [duration |-> 6, price |-> 5000, dataLimit |-> "2GB"] >>

\* The codes generateVoucherCode can return ("MW-" and 8 random characters;
\* the source does not check for a collision, so a code can repeat).
Codes == {"MW-AAAAAAAA", "MW-BBBBBBBB"}

\* The code the n-th sample voucher got at construction.
SampleCode(n) == IF n % 2 = 1 THEN "MW-AAAAAAAA" ELSE "MW-BBBBBBBB"

\* Object.assign(target, updates)
Assign(target, updates) ==
  [f \in DOMAIN target \cup DOMAIN updates |->
     IF f \in DOMAIN updates THEN updates[f] ELSE target[f]]

\* The voucher object createVoucher / createSampleVouchers stores.
NewVoucher(code, voucherData, t) ==
  [ code      |-> code,
    duration  |-> voucherData.duration,
    price     |-> voucherData.price,
    dataLimit |-> voucherData.dataLimit,
    status    |-> "active",
    isUsed    |-> FALSE,
    createdAt |-> t,
    expiresAt |-> t + voucherData.duration,
    usedAt    |-> NullTime,
    userId    |-> null,
    userInfo  |-> undefined ]

\* db.createVoucher: the store after it; the new id is nextVoucherId.
createVoucher(vs, id, code, voucherData, t) ==
  [i \in DOMAIN vs \cup {id} |->
     IF i = id THEN NewVoucher(code, voucherData, t) ELSE vs[i]]

getVoucherById(vs, id) == IF id \in DOMAIN vs THEN vs[id] ELSE undefined

\* db.getVoucherByCode: the id of the first voucher, in insertion order,
\* that carries the code; 0 when there is none (the source returns null).
getVoucherByCode(vs, code) ==
  LET hits == {i \in DOMAIN vs : vs[i].code = code}
  IN  IF hits = {} THEN 0
      ELSE CHOOSE i \in hits : \A j \in hits : i <= j

\* db.updateVoucher: the store after it (unchanged for an unknown id).
updateVoucher(vs, id, updates) ==
  IF id \in DOMAIN vs
    THEN [vs EXCEPT ![id] = Assign(@, updates)]
    ELSE vs

\* A createPayment that spreads paymentData after it has set the status.
NewPaymentSpreadLast(paymentData, t) ==
  Assign([createdAt |-> t, status |-> "pending"], paymentData)

\* db.createPayment: the stored payment; status is set after the spread of
\* paymentData, so it is pending whatever paymentData carries.
NewPayment(paymentData, t) ==
  Assign(paymentData, [createdAt |-> t, status |-> "pending"])

createPayment(ps, id, paymentData, t) ==
  [i \in DOMAIN ps \cup {id} |->
     IF i = id THEN NewPayment(paymentData, t) ELSE ps[i]]

\* db.updatePayment
updatePayment(ps, id, updates) ==
  IF id \in DOMAIN ps
    THEN [ps EXCEPT ![id] = Assign(@, updates)]
    ELSE ps

\* db.createSession: isActive and createdAt are set after the spread.
NewSession(sessionData, t) ==
  Assign(sessionData, [createdAt |-> t, isActive |-> TRUE])

\* A createSession that stores the session under two ids.
createSessionTwice(ss, id, sessionData, t) ==
  [i \in DOMAIN ss \cup {id, id + 1} |->
     IF i \in {id, id + 1} THEN NewSession(sessionData, t) ELSE ss[i]]

createSession(ss, id, sessionData, t) ==
  [i \in DOMAIN ss \cup {id} |->
     IF i = id THEN NewSession(sessionData, t) ELSE ss[i]]

\* An updateSession that stores the updates in place of the session.
updateSessionReplaces(ss, id, updates) ==
  IF id \in DOMAIN ss
    THEN [ss EXCEPT ![id] = updates]
    ELSE ss

\* db.updateSession: the store after it (unchanged for an unknown id).
updateSession(ss, id, updates) ==
  IF id \in DOMAIN ss
    THEN [ss EXCEPT ![id] = Assign(@, updates)]
    ELSE ss

\* What updateVoucher, updatePayment and updateSession return: the stored
\* object after Object.assign, null for an unknown id.
updateReturn(m, id, updates) ==
  IF id \in DOMAIN m THEN Assign(m[id], updates) ELSE null

\* The user the constructor stores.
AdminEmail == "admin@mowave.com"

DefaultAdmin ==
  [ id        |-> 1,
    email     |-> AdminEmail,
    password  |-> "$2a$10$92IXUNpkjO0rOQ5byMi.Ye4oKoEa3Ro9llC/.og/at2.uheWG/igi",
    role      |-> "admin",
    createdAt |-> 0,
    isActive  |-> TRUE ]

\* db.createUser: createdAt and isActive are set after the spread.
NewUser(id, userData, t) ==
  Assign(Assign([id |-> id], userData), [createdAt |-> t, isActive |-> TRUE])

createUser(us, id, userData, t) ==
  [i \in DOMAIN us \cup {id} |-> IF i = id THEN NewUser(id, userData, t) ELSE us[i]]

\* db.getUserByEmail: the id of a user with that email, 0 when there is
\* none (the source returns the first such user, or null).
getUserByEmail(us, email) ==
  LET hits == {i \in DOMAIN us : us[i].email = email}
  IN  IF hits = {} THEN 0
      ELSE CHOOSE i \in hits : \A j \in hits : i <= j

\* reduce((sum, p) => sum + p.amount, 0) over the payments ids names.
RECURSIVE reduceAmount(_, _)
reduceAmount(ps, ids) ==
  IF ids = {} THEN 0
  ELSE LET i == CHOOSE j \in ids : \A k \in ids : j >= k
       IN  reduceAmount(ps, ids \ {i}) + ps[i].amount

\* A getStats whose revenue counts every payment.
getStatsAllRevenue(vs, ps, us) ==
  [ totalVouchers      |-> Cardinality(DOMAIN vs),
    usedVouchers       |-> Cardinality({i \in DOMAIN vs : vs[i].isUsed}),
    totalPayments      |-> Cardinality(DOMAIN ps),
    successfulPayments |-> Cardinality({i \in DOMAIN ps : ps[i].status = "success"}),
    totalRevenue       |-> reduceAmount(ps, DOMAIN ps),
    availableVouchers  |-> Cardinality(DOMAIN vs)
                             - Cardinality({i \in DOMAIN vs : vs[i].isUsed}),
    activeUsers        |-> Cardinality(DOMAIN us) ]

\* db.getStats
getStats(vs, ps, us) ==
  LET usedVouchers == {i \in DOMAIN vs : vs[i].isUsed}
      successfulPayments == {i \in DOMAIN ps : ps[i].status = "success"}
  IN  [ totalVouchers      |-> Cardinality(DOMAIN vs),
        usedVouchers       |-> Cardinality(usedVouchers),
        totalPayments      |-> Cardinality(DOMAIN ps),
        successfulPayments |-> Cardinality(successfulPayments),
        totalRevenue       |-> reduceAmount(ps, successfulPayments),
        availableVouchers  |-> Cardinality(DOMAIN vs) - Cardinality(usedVouchers),
        activeUsers        |-> Cardinality(DOMAIN us) ]

\* The response a route sends.
Response(route, code, msg, id, status) ==
  [route |-> route, code |-> code, msg |-> msg, id |-> id, status |-> status]

NoResponse == Response("none", 0, "", 0, "")

(***************************************************************************)
(* Construction: the Database constructor creates the default admin and    *)
(* the sample vouchers; no payment, session or settlement task exists.     *)
(***************************************************************************)
SampleIds == 1..Len(SampleVouchers)

Init ==
  /\ now = 0
  /\ vouchers = [i \in SampleIds |-> NewVoucher(SampleCode(i), SampleVouchers[i], 0)]
  /\ payments = <<>>
  /\ sessions = <<>>
  /\ nextVoucherId = Len(SampleVouchers) + 1
  /\ tasks = <<>>
  /\ resp = NoResponse
  /\ everSuccess = {}
  /\ users = [i \in {1} |-> DefaultAdmin]
  /\ nextUserId = 2
  /\ userTasks = <<>>
  /\ ret = null

\* Time passes between two handler stretches.
Tick ==
  /\ UNCHANGED <<userVars, ret>>
  /\ now < MaxTime
  /\ now' = now + 1
  /\ resp' = NoResponse
  /\ UNCHANGED <<vouchers, payments, sessions, nextVoucherId, tasks, everSuccess>>

(***************************************************************************)
(* POST /vouchers/redeem (src/backend/src/routes/vouchers.js)              *)
(***************************************************************************)
\* The userInfo a request carries: none, or an object with a userId.
UserInfos == {undefined, "info:u1"}

\* userInfo?.userId
UserIdOf(userInfo) == IF userInfo = "info:u1" THEN "u1" ELSE undefined

RedeemCodes == Codes \cup {"MW-UNKNOWN", undefined}

\* A redemption that leaves the voucher unused.
RedeemUpdatesKeepsUnused(userInfo, t) ==
  [ isUsed   |-> FALSE,
    usedAt   |-> t,
    userId   |-> OrNull(UserIdOf(userInfo)),
    userInfo |-> OrNull(userInfo) ]

\* The updates of the redeemed voucher.
RedeemUpdates(userInfo, t) ==
  [ isUsed   |-> TRUE,
    usedAt   |-> t,
    userId   |-> OrNull(UserIdOf(userInfo)),
    userInfo |-> OrNull(userInfo) ]

\* A sessionData whose endTime is the time of the redemption.
SessionDataEndsAtOnce(id, voucher, userInfo, t) ==
  [ voucherId |-> id,
    userId    |-> OrNull(UserIdOf(userInfo)),
    duration  |-> voucher.duration,
    dataLimit |-> voucher.dataLimit,
    startTime |-> t,
    endTime   |-> t ]

\* The sessionData of the session a redemption creates.
SessionData(id, voucher, userInfo, t) ==
  [ voucherId |-> id,
    userId    |-> OrNull(UserIdOf(userInfo)),
    duration  |-> voucher.duration,
    dataLimit |-> voucher.dataLimit,
    startTime |-> t,
    endTime   |-> t + voucher.duration ]

\* A redemption at the very time of expiry counts as expired.
ExpiredFrom(voucher, t) == t >= voucher.expiresAt

\* new Date() > new Date(voucher.expiresAt)
Expired(voucher, t) == t > voucher.expiresAt

\* The checks with the expiry compared before isUsed.
RedeemCheckExpiryFirst(vs, id, t) ==
  IF id = 0 THEN "Invalid voucher code"
  ELSE IF Expired(vs[id], t) THEN "Voucher has expired"
  ELSE IF vs[id].isUsed THEN "Voucher has already been used"
  ELSE "ok"

\* A redeem that checks the status as validate does.
RedeemCheckStatus(vs, id, t) ==
  IF id = 0 THEN "Invalid voucher code"
  ELSE IF vs[id].isUsed THEN "Voucher has already been used"
  ELSE IF vs[id].status # "active" THEN "Voucher is not active"
  ELSE IF Expired(vs[id], t) THEN "Voucher has expired"
  ELSE "ok"

\* The checks of the handler on the voucher getVoucherByCode found (0 when
\* it found none), in their order: the message of the first that rejects,
\* "ok" when none does.
RedeemCheck(vs, id, t) ==
  IF id = 0 THEN "Invalid voucher code"
  ELSE IF vs[id].isUsed THEN "Voucher has already been used"
  ELSE IF Expired(vs[id], t) THEN "Voucher has expired"
  ELSE "ok"

Redeem(code, userInfo) ==
  LET id == getVoucherByCode(vouchers, code)
      found == RedeemCheck(vouchers, id, now)
      sid == Cardinality(DOMAIN sessions) + 1
  IN
  /\ UNCHANGED <<userVars, ret>>
  /\ UNCHANGED <<now, payments, nextVoucherId, tasks, everSuccess>>
  /\ IF code = undefined THEN
       /\ resp' = Response("redeem", 400, "Voucher code is required", 0, "")
       /\ UNCHANGED <<vouchers, sessions>>
     ELSE IF found # "ok" THEN
       /\ resp' = Response("redeem", IF id = 0 THEN 404 ELSE 400, found, id, "")
       /\ UNCHANGED <<vouchers, sessions>>
     ELSE
       /\ sid <= MaxSessions
       /\ vouchers' = updateVoucher(vouchers, id, RedeemUpdates(userInfo, now))
       /\ sessions' = createSession(sessions, sid,
            SessionData(id, vouchers[id], userInfo, now), now)
       /\ resp' = Response("redeem", 200, "Voucher redeemed successfully", id, "")

(***************************************************************************)
(* POST /vouchers/validate (src/backend/src/routes/vouchers.js)            *)
(***************************************************************************)
\* The checks with the expiry compared before the status.
ValidateCheckExpiryFirst(vs, id, t) ==
  IF id = 0 THEN "Invalid voucher code"
  ELSE IF vs[id].isUsed THEN "Voucher has already been used"
  ELSE IF Expired(vs[id], t) THEN "Voucher has expired"
  ELSE IF vs[id].status # "active" THEN "Voucher is not active"
  ELSE "Voucher is valid"

\* The checks of the handler on the voucher getVoucherByCode found (0 when
\* it found none), in their order: the message of the first that rejects,
\* "Voucher is valid" when none does.
ValidateCheck(vs, id, t) ==
  IF id = 0 THEN "Invalid voucher code"
  ELSE IF vs[id].isUsed THEN "Voucher has already been used"
  ELSE IF vs[id].status # "active" THEN "Voucher is not active"
  ELSE IF Expired(vs[id], t) THEN "Voucher has expired"
  ELSE "Voucher is valid"

Validate(code) ==
  LET id == getVoucherByCode(vouchers, code)
      found == ValidateCheck(vouchers, id, now)
  IN
  /\ UNCHANGED <<userVars, ret>>
  /\ UNCHANGED <<now, vouchers, payments, sessions, nextVoucherId, tasks,
                 everSuccess>>
  /\ IF code = undefined THEN
       resp' = Response("validate", 400, "Voucher code is required", 0, "")
     ELSE
       resp' = Response("validate",
                        IF found = "Voucher is valid" THEN 200
                        ELSE IF id = 0 THEN 404 ELSE 400,
                        found, id, "")

(***************************************************************************)
(* validatePaymentData (src/backend/src/routes/payments.js)                *)
(***************************************************************************)
\* A phone number is the sequence of its characters, digits as numbers;
\* <<>> is a missing phone number.
mtnPrefixes ==
  { <<2,5,6,0,7,0>>, <<2,5,6,0,7,7>>, <<2,5,6,0,7,8>>, <<2,5,6,0,3,9>> }
airtelPrefixes ==
  { <<2,5,6,0,7,0>>, <<2,5,6,0,7,5>>, <<2,5,6,0,7,4>>, <<2,5,6,0,2,0>> }

\* phoneNumber.startsWith(prefix)
startsWith(phoneNumber, prefix) ==
  /\ Len(phoneNumber) >= Len(prefix)
  /\ SubSeq(phoneNumber, 1, Len(prefix)) = prefix

\* /^256[0-9]{9}$/.test(phoneNumber)
MatchesPhoneFormat(phoneNumber) ==
  /\ Len(phoneNumber) = 12
  /\ startsWith(phoneNumber, <<2,5,6>>)
  /\ \A k \in 1..12 : phoneNumber[k] \in 0..9

\* The message validatePaymentData rejects the request with, "next" when it
\* calls next().  amount 0 and voucherId 0 stand for a missing value.
validatePaymentData(amount, phoneNumber, paymentMethod, voucherId) ==
  IF amount = 0 \/ amount < 1000 \/ amount > 50000
    THEN "Amount must be between 1000 and 50000 UGX"
  ELSE IF phoneNumber = <<>> \/ ~MatchesPhoneFormat(phoneNumber)
    THEN "Invalid phone number format. Use 256XXXXXXXXX"
  ELSE IF paymentMethod = "mtn_momo"
          /\ ~\E prefix \in mtnPrefixes : startsWith(phoneNumber, prefix)
    THEN "Phone number is not compatible with MTN MoMo"
  ELSE IF paymentMethod = "airtel_money"
          /\ ~\E prefix \in airtelPrefixes : startsWith(phoneNumber, prefix)
    THEN "Phone number is not compatible with Airtel Money"
  ELSE IF paymentMethod = undefined
          \/ paymentMethod \notin {"mtn_momo", "airtel_money"}
    THEN "Payment method must be mtn_momo or airtel_money"
  ELSE IF voucherId = 0
    THEN "Voucher ID is required"
  ELSE "next"

(***************************************************************************)
(* POST /payments: initiate (src/backend/src/routes/payments.js)           *)
(***************************************************************************)
\* The phone numbers of the requests: one that carries a prefix of both
\* providers, the one of the documented scenario, and a missing one.
Phone070 == <<2,5,6,0,7,0,0,0,0,0,0,0>>
Phone700 == <<2,5,6,7,0,0,0,0,0,0,0,0>>

\* A request body {amount, phoneNumber, paymentMethod, voucherId, userId}.
Request(amount, phoneNumber, paymentMethod, voucherId, userId) ==
  [ amount |-> amount, phoneNumber |-> phoneNumber,
    paymentMethod |-> paymentMethod, voucherId |-> voucherId,
    userId |-> userId ]

\* The requests that name a sample voucher with its price: MTN MoMo for the
\* first voucher, by a user or anonymous, Airtel Money for the second.
GoodRequests ==
  { Request(1000, Phone070, "mtn_momo", 1, userId) : userId \in {undefined, "u1"} }
  \cup { Request(5000, Phone070, "airtel_money", 2, undefined) }

\* Requests with one thing wrong, or with two: a wrong amount, a voucher
\* id that may not be stored, a missing voucher id, and the middleware's
\* rejections.
BadRequests ==
  { Request(5000, Phone070, "mtn_momo", 1, undefined),
    Request(1000, Phone070, "mtn_momo", Len(SampleVouchers) + 1, undefined),
    Request(5000, Phone070, "mtn_momo", Len(SampleVouchers) + 2, undefined),
    Request(1000, Phone070, "mtn_momo", 0, undefined),
    Request(500, Phone070, "mtn_momo", 1, undefined),
    Request(1000, Phone700, "mtn_momo", 1, undefined),
    Request(1000, <<>>, "mtn_momo", 1, undefined),
    Request(1000, Phone070, "card", 1, undefined) }

InitiateRequests == GoodRequests \cup BadRequests

\* The paymentData object of the handler.  A field the source leaves unset
\* is stored with the value a read of it gives: undefined, and NullTime for
\* a date.
PaymentData(amount, phoneNumber, paymentMethod, voucherId, userId) ==
  [ amount        |-> amount,
    phoneNumber   |-> phoneNumber,
    paymentMethod |-> paymentMethod,
    voucherId     |-> voucherId,
    userId        |-> OrNull(userId),
    status        |-> "pending",
    transactionId |-> null,
    failureReason |-> undefined,
    errorCode     |-> undefined,
    adminNotes    |-> undefined,
    completedAt   |-> NullTime,
    cancelledAt   |-> NullTime ]

\* A closure that is created and never scheduled.
NewTaskUnscheduled(paymentId, paymentMethod, voucherId, userId) ==
  [ pc            |-> "idle",
    notification  |-> "none",
    paymentId     |-> paymentId,
    paymentMethod |-> paymentMethod,
    voucherId     |-> voucherId,
    userId        |-> userId ]

\* The closure setImmediate schedules: what processPayment is called with.
NewTask(paymentId, paymentMethod, voucherId, userId) ==
  [ pc            |-> "scheduled",
    notification  |-> "none",
    paymentId     |-> paymentId,
    paymentMethod |-> paymentMethod,
    voucherId     |-> voucherId,
    userId        |-> userId ]

\* The checks on the voucher with the price compared before isUsed.
VoucherCheckPriceFirst(vs, voucherId, amount) ==
  IF voucherId \notin DOMAIN vs THEN "Voucher not found"
  ELSE IF vs[voucherId].price # amount
    THEN "Payment amount does not match voucher price"
  ELSE IF vs[voucherId].isUsed THEN "Voucher already used"
  ELSE "ok"

\* The checks of the handler on the voucher, in their order: the message
\* of the first that rejects, "ok" when none does.
VoucherCheck(vs, voucherId, amount) ==
  IF voucherId \notin DOMAIN vs THEN "Voucher not found"
  ELSE IF vs[voucherId].isUsed THEN "Voucher already used"
  ELSE IF vs[voucherId].price # amount
    THEN "Payment amount does not match voucher price"
  ELSE "ok"

Initiate(amount, phoneNumber, paymentMethod, voucherId, userId) ==
  LET check == validatePaymentData(amount, phoneNumber, paymentMethod, voucherId)
      found == VoucherCheck(vouchers, voucherId, amount)
      pid == Cardinality(DOMAIN payments) + 1
  IN
  /\ UNCHANGED <<userVars, ret>>
  /\ UNCHANGED <<now, vouchers, sessions, nextVoucherId, everSuccess>>
  /\ IF check # "next" THEN
       /\ resp' = Response("initiate", 400, check, 0, "")
       /\ UNCHANGED <<payments, tasks>>
     ELSE IF found # "ok" THEN
       /\ resp' = Response("initiate",
                           IF found = "Voucher not found" THEN 404 ELSE 400,
                           found, voucherId, "")
       /\ UNCHANGED <<payments, tasks>>
     ELSE
       /\ pid <= MaxPayments
       /\ payments' = createPayment(payments, pid,
            PaymentData(amount, phoneNumber, paymentMethod, voucherId, userId), now)
       /\ tasks' = [i \in DOMAIN tasks \cup {pid} |->
                      IF i = pid
                        THEN NewTask(pid, paymentMethod, voucherId, userId)
                        ELSE tasks[i]]
       /\ resp' = Response("initiate", 201, "Payment initiated successfully",
                           pid, payments'[pid].status)

(***************************************************************************)
(* The settlement task: processPayment                                     *)
(* (src/backend/src/services/paymentService.js) and the notification that  *)
(* follows it in the setImmediate callback.                                *)
(***************************************************************************)
MTNFailureScenarios ==
  << [error |-> "INSUFFICIENT_FUNDS",
      message |-> "Insufficient balance in your MTN MoMo account"],
     [error |-> "INVALID_PHONE_NUMBER",
      message |-> "Phone number is not registered for MTN MoMo"],
     [error |-> "TRANSACTION_DECLINED",
      message |-> "Transaction was declined by MTN MoMo"],
     [error |-> "ACCOUNT_BLOCKED",
      message |-> "Your MTN MoMo account is temporarily blocked"],
     [error |-> "NETWORK_ERROR",
      message |-> "Network error occurred. Please try again"] >>

AirtelFailureScenarios ==
  << [error |-> "INSUFFICIENT_BALANCE",
      message |-> "Insufficient balance in your Airtel Money account"],
     [error |-> "INVALID_SUBSCRIBER",
      message |-> "Invalid Airtel Money subscriber"],
     [error |-> "TRANSACTION_LIMIT_EXCEEDED",
      message |-> "Transaction limit exceeded"],
     [error |-> "SERVICE_UNAVAILABLE",
      message |-> "Airtel Money service is temporarily unavailable"],
     [error |-> "PIN_BLOCKED",
      message |-> "Your Airtel Money PIN is blocked"] >>

\* The values of Math.floor(Math.random() * failureScenarios.length) + 1
\* the model draws: the first scenario.
ScenarioDraws == {1}

\* The result object of a gateway call: draw 0 is random < successRate.
GatewayResult(scenarios, provider, draw) ==
  IF draw = 0
    THEN [ success |-> TRUE, transactionId |-> provider \o "_TX",
           error |-> undefined, message |-> "Payment completed" ]
    ELSE [ success |-> FALSE, transactionId |-> undefined,
           error |-> scenarios[draw].error,
           message |-> scenarios[draw].message ]

processMTNMoMoPayment(draw) == GatewayResult(MTNFailureScenarios, "MTN", draw)

processAirtelMoneyPayment(draw) ==
  GatewayResult(AirtelFailureScenarios, "AIRTEL", draw)

\* The updates of the catch block of processPayment; message is
\* error.message.
CatchUpdates(message) ==
  [ status        |-> "failed",
    failureReason |-> message,
    errorCode     |-> "PROCESSING_ERROR" ]

\* How the catch block ends: its return statement evaluates
\* paymentMethod.toUpperCase(), a TypeError when paymentMethod is undefined.
CatchEnds(paymentMethod) ==
  IF paymentMethod = undefined THEN "throws TypeError" ELSE "returns failure"

\* The payment methods of a direct call that the switch does not support.
UnsupportedMethods == {"card", undefined}

\* processPayment called with an unsupported payment method for payment
\* pid: the default case throws inside the try, the catch updates the
\* payment and ends, all in one stretch.
ProcessUnsupported(pid, paymentMethod) ==
  /\ UNCHANGED <<userVars, ret>>
  /\ paymentMethod \notin {"mtn_momo", "airtel_money"}
  /\ payments' = updatePayment(payments, pid,
                   CatchUpdates("Unsupported payment method"))
  /\ resp' = Response("processPayment", 0, CatchEnds(paymentMethod), pid, "")
  /\ UNCHANGED <<now, vouchers, sessions, nextVoucherId, tasks, everSuccess>>

\* The task starts: processPayment enters the switch and awaits the gateway
\* call.  An unsupported method throws inside the try; the catch marks the
\* payment failed and the task ends in the same stretch.
SettleStart(pid) ==
  /\ UNCHANGED <<userVars, ret>>
  /\ pid \in DOMAIN tasks
  /\ tasks[pid].pc = "scheduled"
  /\ resp' = NoResponse
  /\ UNCHANGED <<now, vouchers, sessions, nextVoucherId, everSuccess>>
  /\ IF tasks[pid].paymentMethod \in {"mtn_momo", "airtel_money"}
       THEN /\ tasks' = [tasks EXCEPT ![pid].pc = "inflight"]
            /\ UNCHANGED payments
       ELSE /\ payments' = updatePayment(payments, pid,
                 CatchUpdates("Unsupported payment method"))
            /\ tasks' = [tasks EXCEPT ![pid].pc = "done"]

\* The updateData object processPayment builds from the gateway result.
SettleUpdateData(result, t) ==
  IF result.success
    THEN [ status        |-> "success",
           transactionId |-> OrNull(result.transactionId),
           completedAt   |-> t ]
    ELSE [ status        |-> "failed",
           transactionId |-> OrNull(result.transactionId),
           completedAt   |-> t,
           failureReason |-> result.message,
           errorCode     |-> result.error ]

\* A processPayment that marks the voucher whatever the result.
SettleVouchersAlways(vs, task, result, t) ==
  IF task.voucherId # 0
    THEN updateVoucher(vs, task.voucherId,
           [ isUsed |-> TRUE, usedAt |-> t, userId |-> OrNull(task.userId) ])
    ELSE vs

\* The vouchers after processPayment has applied the result.
SettleVouchers(vs, task, result, t) ==
  IF result.success /\ task.voucherId # 0
    THEN updateVoucher(vs, task.voucherId,
           [ isUsed |-> TRUE, usedAt |-> t, userId |-> OrNull(task.userId) ])
    ELSE vs

\* A callback that does not catch: a notification that throws leaves the
\* task unfinished.
TaskUncaught(task, sms) ==
  [task EXCEPT !.pc = IF sms = "throws" THEN "inflight" ELSE "done",
               !.notification = sms]

\* The callback after processPayment has returned: it awaits the
\* notification (sms is what the call does: "sent" or "throws") and its
\* catch swallows a failure; the task ends.
TaskAfterNotification(task, sms) ==
  [task EXCEPT !.pc = "done", !.notification = sms]

\* The gateway call returns: processPayment updates the payment and, on
\* success, the voucher; the callback then calls the notification; the
\* task ends.
SettleEnd(pid, draw, sms) ==
  LET task == tasks[pid]
      result == IF task.paymentMethod = "mtn_momo"
                  THEN processMTNMoMoPayment(draw)
                  ELSE processAirtelMoneyPayment(draw)
  IN
  /\ UNCHANGED <<userVars, ret>>
  /\ pid \in DOMAIN tasks
  /\ tasks[pid].pc = "inflight"
  /\ payments' = updatePayment(payments, pid, SettleUpdateData(result, now))
  /\ vouchers' = IF pid \in DOMAIN payments
                   THEN SettleVouchers(vouchers, task, result, now)
                   ELSE vouchers
  /\ tasks' = [tasks EXCEPT ![pid] = TaskAfterNotification(@, sms)]
  /\ everSuccess' = IF payments'[pid].status = "success"
                      THEN everSuccess \cup {pid} ELSE everSuccess
  /\ resp' = NoResponse
  /\ UNCHANGED <<now, sessions, nextVoucherId>>

\* The settlement with the smsService of the source, which defines neither
\* sendVoucherCode nor sendPaymentFailureNotification: the call throws.
SettleFinish(pid, draw) == SettleEnd(pid, draw, "throws")

(***************************************************************************)
(* DELETE /payments/:id: cancel (src/backend/src/routes/payments.js)       *)
(***************************************************************************)
\* What a call of a notification method of smsService does.  The smsService
\* of the source defines none of sendVoucherCode,
\* sendPaymentFailureNotification and sendPaymentCancellationNotification,
\* so there the call throws; a dispatcher that has them sends or throws.
SmsOutcomes == {"sent", "throws"}

\* The ids of the requests on a payment: the stored ones, and one that is
\* not stored.
PaymentIds == DOMAIN payments \cup {Cardinality(DOMAIN payments) + 1}

\* A cancel that takes every payment that is not success.
CanCancelUnlessSuccess(payment) == payment.status # "success"

\* Only pending payments can be cancelled.
CanCancel(payment) == payment.status = "pending"

Cancel(id, sms) ==
  /\ UNCHANGED <<userVars, ret>>
  /\ UNCHANGED <<now, vouchers, sessions, nextVoucherId, tasks, everSuccess>>
  /\ IF id \notin DOMAIN payments THEN
       /\ resp' = Response("cancel", 404, "Payment not found", id, "")
       /\ UNCHANGED payments
     ELSE IF ~CanCancel(payments[id]) THEN
       /\ resp' = Response("cancel", 400,
                           "Only pending payments can be cancelled", id,
                           payments[id].status)
       /\ UNCHANGED payments
     ELSE
       /\ payments' = updatePayment(payments, id,
            [ status |-> "cancelled", cancelledAt |-> now ])
       /\ resp' = IF sms = "sent"
                    THEN Response("cancel", 200, "Payment cancelled successfully",
                                  id, "cancelled")
                    ELSE Response("cancel", 500, "Failed to cancel payment", id, "")

(***************************************************************************)
(* PUT /payments/:id: update (src/backend/src/routes/payments.js)          *)
(***************************************************************************)
validStatuses == {"pending", "success", "failed", "cancelled"}

\* The fields of a request body that are truthy: `if (x) updateData.x = x`.
Truthy(body, fields) ==
  [f \in {g \in fields \cap DOMAIN body : body[g] \notin {undefined, null, ""}}
     |-> body[f]]

\* body.status, undefined when the body has none
StatusOf(body) == IF "status" \in DOMAIN body THEN body.status ELSE undefined

\* The bodies a PUT /payments/:id request carries.
UpdateBodies ==
  { [status |-> "pending"], [status |-> "success"], [status |-> "failed"],
    [status |-> "cancelled"], [status |-> "refunded"],
    [transactionId |-> "TX-EXT"],
    [status |-> "failed", failureReason |-> "declined", errorCode |-> "E1"] }

UpdatePayment(id, body, sms) ==
  LET status == StatusOf(body)
      payment == payments[id]
      updateData ==
        Truthy(body, {"status", "transactionId", "failureReason", "errorCode"})
      toSuccess == status = "success" /\ payment.status # "success"
      marks == /\ toSuccess
               /\ payment.voucherId \in DOMAIN vouchers
               /\ ~vouchers[payment.voucherId].isUsed
  IN
  /\ UNCHANGED <<userVars, ret>>
  /\ UNCHANGED <<now, sessions, nextVoucherId, tasks>>
  /\ IF id \notin DOMAIN payments THEN
       /\ resp' = Response("update", 404, "Payment not found", id, "")
       /\ UNCHANGED <<payments, vouchers, everSuccess>>
     ELSE IF status # undefined /\ status \notin validStatuses THEN
       /\ resp' = Response("update", 400, "Invalid payment status", id, "")
       /\ UNCHANGED <<payments, vouchers, everSuccess>>
     ELSE
       /\ vouchers' = IF marks
                        THEN updateVoucher(vouchers, payment.voucherId,
                               [ isUsed |-> TRUE, usedAt |-> now,
                                 userId |-> payment.userId ])
                        ELSE vouchers
       /\ IF marks /\ sms = "throws" THEN
            \* sendVoucherCode throws after the voucher update: the catch
            \* answers 500 and the payment is not updated.
            /\ resp' = Response("update", 500, "Failed to update payment", id, "")
            /\ UNCHANGED <<payments, everSuccess>>
          ELSE
            /\ payments' = updatePayment(payments, id,
                 IF toSuccess
                   THEN Assign(updateData, [completedAt |-> now])
                   ELSE updateData)
            /\ everSuccess' = IF payments'[id].status = "success"
                                THEN everSuccess \cup {id} ELSE everSuccess
            /\ resp' = Response("update", 200, "Payment updated successfully",
                                id, payments'[id].status)

(***************************************************************************)
(* PUT /admin/payments/:id: admin correction                               *)
(* (src/backend/src/routes/admin.js)                                       *)
(***************************************************************************)
AdminBodies ==
  { [status |-> "pending"], [status |-> "success"], [status |-> "failed"],
    [status |-> "cancelled"], [status |-> "refunded"],
    [status |-> "failed", failureReason |-> "chargeback", notes |-> "n1"] }

\* Updates that clear usedAt and userId and leave isUsed.
FreeVoucherKeepsUsed == [ usedAt |-> NullTime, userId |-> null ]

\* The updates that free the voucher of a payment forced to failed.
FreeVoucher == [ isUsed |-> FALSE, usedAt |-> NullTime, userId |-> null ]

AdminUpdatePayment(id, body) ==
  LET status == StatusOf(body)
      payment == payments[id]
      notes == Truthy(body, {"notes"})
      updateData ==
        Assign(Truthy(body, {"status", "failureReason"}),
               IF notes = <<>> THEN <<>> ELSE [adminNotes |-> body.notes])
      toSuccess == status = "success" /\ payment.status # "success"
      toFailed == status = "failed" /\ payment.status = "success"
      known == payment.voucherId \in DOMAIN vouchers
  IN
  /\ UNCHANGED <<userVars, ret>>
  /\ UNCHANGED <<now, sessions, nextVoucherId, tasks>>
  /\ IF id \notin DOMAIN payments THEN
       /\ resp' = Response("adminUpdate", 404, "Payment not found", id, "")
       /\ UNCHANGED <<payments, vouchers, everSuccess>>
     ELSE IF status # undefined /\ status \notin validStatuses THEN
       /\ resp' = Response("adminUpdate", 400, "Invalid payment status", id, "")
       /\ UNCHANGED <<payments, vouchers, everSuccess>>
     ELSE
       /\ vouchers' =
            IF toSuccess /\ known /\ ~vouchers[payment.voucherId].isUsed
              THEN updateVoucher(vouchers, payment.voucherId,
                     [ isUsed |-> TRUE, usedAt |-> now,
                       userId |-> payment.userId ])
            ELSE IF toFailed /\ known /\ vouchers[payment.voucherId].isUsed
              THEN updateVoucher(vouchers, payment.voucherId, FreeVoucher)
            ELSE vouchers
       /\ payments' = updatePayment(payments, id,
            IF toSuccess
              THEN Assign(updateData, [completedAt |-> now])
              ELSE updateData)
       /\ everSuccess' = IF payments'[id].status = "success"
                           THEN everSuccess \cup {id} ELSE everSuccess
       /\ resp' = Response("adminUpdate", 200, "Payment updated successfully",
                           id, payments'[id].status)

(***************************************************************************)
(* Voucher creation and the admin voucher routes                           *)
(* (src/backend/src/routes/vouchers.js, src/backend/src/routes/admin.js)   *)
(***************************************************************************)
\* A number of a request body is a decimal with one fractional digit, held
\* in tenths: 15 is 1.5; 0 also stands for a missing value.
\* parseInt(x): the integer part, truncated towards zero.
parseInt(x) == IF x >= 0 THEN x \div 10 ELSE 0 - ((0 - x) \div 10)

\* The {duration, price, dataLimit} bodies a creation request carries.
VoucherBodies ==
  { [duration |-> 10, price |-> 10000, dataLimit |-> "500MB"],
    [duration |-> 15, price |-> 50000, dataLimit |-> undefined],
    [duration |-> 5,  price |-> 10000, dataLimit |-> "500MB"],
    [duration |-> 0,  price |-> 10000, dataLimit |-> "500MB"],
    [duration |-> 10, price |-> 0,     dataLimit |-> "500MB"],
    [duration |-> 0 - 10, price |-> 10000, dataLimit |-> "500MB"] }

\* POST /vouchers/generate
Generate(body, code) ==
  /\ UNCHANGED <<userVars, ret>>
  /\ UNCHANGED <<now, payments, sessions, tasks, everSuccess>>
  /\ IF body.duration = 0 \/ body.price = 0 THEN
       /\ resp' = Response("generate", 400, "Duration and price are required", 0, "")
       /\ UNCHANGED <<vouchers, nextVoucherId>>
     ELSE
       /\ nextVoucherId <= MaxVouchers
       /\ vouchers' = createVoucher(vouchers, nextVoucherId, code,
            [ duration  |-> parseInt(body.duration),
              price     |-> parseInt(body.price),
              dataLimit |-> IF body.dataLimit = undefined
                              THEN "1GB" ELSE body.dataLimit ], now)
       /\ nextVoucherId' = nextVoucherId + 1
       /\ resp' = Response("generate", 201, "Voucher generated successfully",
                           nextVoucherId, "")

\* The bodies a PUT /admin/vouchers/:id request carries; a field that is
\* not in the body is undefined.
VoucherEdits ==
  { [duration |-> 20], [price |-> 50000], [status |-> "inactive"],
    [dataLimit |-> "2GB", status |-> "active"] }

\* The updateData object of PUT /admin/vouchers/:id.
VoucherUpdateData(body, t) ==
  [f \in DOMAIN body \cup (IF "duration" \in DOMAIN body THEN {"expiresAt"} ELSE {})
     |-> IF f = "expiresAt" THEN t + parseInt(body.duration)
         ELSE IF f \in {"duration", "price"} THEN parseInt(body[f])
         ELSE body[f]]

\* PUT /admin/vouchers/:id
AdminUpdateVoucher(id, body) ==
  /\ UNCHANGED <<userVars, ret>>
  /\ UNCHANGED <<now, payments, sessions, nextVoucherId, tasks, everSuccess>>
  /\ IF id \notin DOMAIN vouchers THEN
       /\ resp' = Response("adminVoucherUpdate", 404, "Voucher not found", id, "")
       /\ UNCHANGED vouchers
     ELSE IF vouchers[id].isUsed THEN
       /\ resp' = Response("adminVoucherUpdate", 400, "Cannot update used voucher", id, "")
       /\ UNCHANGED vouchers
     ELSE
       /\ vouchers' = updateVoucher(vouchers, id, VoucherUpdateData(body, now))
       /\ resp' = Response("adminVoucherUpdate", 200, "Voucher updated successfully", id, "")

\* A delete that does not look at isUsed.
AdminDeleteAnyVoucher(id) ==
  /\ UNCHANGED <<userVars, ret>>
  /\ UNCHANGED <<now, payments, sessions, nextVoucherId, tasks, everSuccess>>
  /\ IF id \notin DOMAIN vouchers THEN
       /\ resp' = Response("adminVoucherDelete", 404, "Voucher not found", id, "")
       /\ UNCHANGED vouchers
     ELSE
       /\ vouchers' = [i \in DOMAIN vouchers \ {id} |-> vouchers[i]]
       /\ resp' = Response("adminVoucherDelete", 200, "Voucher deleted successfully", id, "")

\* DELETE /admin/vouchers/:id
AdminDeleteVoucher(id) ==
  /\ UNCHANGED <<userVars, ret>>
  /\ UNCHANGED <<now, payments, sessions, nextVoucherId, tasks, everSuccess>>
  /\ IF id \notin DOMAIN vouchers THEN
       /\ resp' = Response("adminVoucherDelete", 404, "Voucher not found", id, "")
       /\ UNCHANGED vouchers
     ELSE IF vouchers[id].isUsed THEN
       /\ resp' = Response("adminVoucherDelete", 400, "Cannot delete used voucher", id, "")
       /\ UNCHANGED vouchers
     ELSE
       /\ vouchers' = [i \in DOMAIN vouchers \ {id} |-> vouchers[i]]
       /\ resp' = Response("adminVoucherDelete", 200, "Voucher deleted successfully", id, "")

(***************************************************************************)
(* Direct calls of the update methods of the Database.                     *)
(***************************************************************************)
\* What a direct call leaves in ret: the call, its arguments and the value
\* it returned.
Call(method, id, updates, value) ==
  [method |-> method, id |-> id, updates |-> updates, value |-> value]

\* db.updateVoucher(id, updates)
CallUpdateVoucher(id, updates) ==
  /\ vouchers' = updateVoucher(vouchers, id, updates)
  /\ ret' = Call("updateVoucher", id, updates, updateReturn(vouchers, id, updates))
  /\ resp' = Response("db.updateVoucher", 0, "", id, "")
  /\ UNCHANGED <<now, payments, sessions, nextVoucherId, tasks, everSuccess, userVars>>

\* db.updatePayment(id, updates)
CallUpdatePayment(id, updates) ==
  /\ payments' = updatePayment(payments, id, updates)
  /\ ret' = Call("updatePayment", id, updates, updateReturn(payments, id, updates))
  /\ resp' = Response("db.updatePayment", 0, "", id, "")
  /\ everSuccess' = everSuccess \cup
       {p \in DOMAIN payments' : payments'[p].status = "success"}
  /\ UNCHANGED <<now, vouchers, sessions, nextVoucherId, tasks, userVars>>

\* db.updateSession(id, updates)
CallUpdateSession(id, updates) ==
  /\ sessions' = updateSession(sessions, id, updates)
  /\ ret' = Call("updateSession", id, updates, updateReturn(sessions, id, updates))
  /\ resp' = Response("db.updateSession", 0, "", id, "")
  /\ UNCHANGED <<now, vouchers, payments, nextVoucherId, tasks, everSuccess, userVars>>

\* The updates the direct calls carry.
VoucherPatches == { [status |-> "inactive"], [isUsed |-> TRUE, usedAt |-> 0] }
PaymentPatches == { [status |-> "failed"], [transactionId |-> "TX-EXT", reviewed |-> TRUE] }
SessionPatches == { [isActive |-> FALSE], [endTime |-> 0, closedBy |-> "admin"] }

(***************************************************************************)
(* Users (backend/src/routes/admin.js) and the dashboard statistics.       *)
(***************************************************************************)
\* GET /admin/dashboard: the db.getStats() call; the route reads only.
GetStats ==
  /\ ret' = getStats(vouchers, payments, users)
  /\ resp' = Response("dashboard", 200, "", 0, "")
  /\ UNCHANGED <<now, vouchers, payments, sessions, nextVoucherId, tasks,
                 everSuccess, userVars>>

\* bcrypt.hash(password, 10)
bcryptHash(password) == "$2a$10$hash"

\* Whether a body carries a non-empty field: `if (x)`, `!x`.
Has(body, f) == f \in DOMAIN body /\ body[f] \notin {undefined, null, ""}

\* The bodies a POST /admin/users request carries.
UserBodies ==
  { [email |-> "a@mowave.com", password |-> "secret"],
    [email |-> AdminEmail, password |-> "secret"],
    [email |-> "a@mowave.com"] }

\* The request that awaits bcrypt.hash: what it will write when it resumes.
UserTask(kind, id, user, data, password) ==
  [kind |-> kind, id |-> id, user |-> user, data |-> data, password |-> password]

\* POST /admin/users, up to `await bcrypt.hash`.
CreateUserStart(body) ==
  LET data == [email |-> body.email,
               role  |-> IF "role" \in DOMAIN body THEN body.role ELSE "user"]
  IN
  /\ UNCHANGED <<now, vouchers, payments, sessions, nextVoucherId, tasks,
                 everSuccess, users, nextUserId, ret>>
  /\ IF ~Has(body, "email") \/ ~Has(body, "password") THEN
       /\ resp' = Response("userCreate", 400, "Email and password are required", 0, "")
       /\ UNCHANGED userTasks
     ELSE IF getUserByEmail(users, body.email) # 0 THEN
       /\ resp' = Response("userCreate", 400, "User already exists", 0, "")
       /\ UNCHANGED userTasks
     ELSE
       /\ resp' = NoResponse
       /\ userTasks' = Append(userTasks,
                         UserTask("create", 0, data, data, body.password))

\* The sequence without its n-th element.
RemoveAt(seq, n) ==
  [i \in 1..(Len(seq) - 1) |-> IF i < n THEN seq[i] ELSE seq[i + 1]]

\* What a resumed PUT /admin/users/:id writes: Object.assign on the user
\* object it fetched before the await, then db.users.set(id, user), which
\* stores the object again when it has been deleted meanwhile.
UserWrite(us, task, id, hashed) ==
  [i \in DOMAIN us \cup {id} |->
     IF i = id
       THEN Assign(Assign(IF id \in DOMAIN us THEN us[id] ELSE task.user, task.data),
                   [password |-> hashed])
       ELSE us[i]]

\* A request resumes after bcrypt.hash: POST /admin/users creates the
\* user, PUT /admin/users/:id writes its update.
UserTaskEnd(n) ==
  LET task == userTasks[n]
      hashed == bcryptHash(task.password)
  IN
  /\ n \in DOMAIN userTasks
  /\ userTasks' = RemoveAt(userTasks, n)
  /\ UNCHANGED <<now, vouchers, payments, sessions, nextVoucherId, tasks,
                 everSuccess, ret>>
  /\ IF task.kind = "create" THEN
       /\ users' = createUser(users, nextUserId,
                     Assign(task.data, [password |-> hashed]), now)
       /\ nextUserId' = nextUserId + 1
       /\ resp' = Response("userCreate", 201, "User created successfully", nextUserId, "")
     ELSE
       /\ users' = UserWrite(users, task, task.id, hashed)
       /\ UNCHANGED nextUserId
       /\ resp' = Response("userUpdate", 200, "User updated successfully", task.id, "")

\* The bodies a PUT /admin/users/:id request carries.
UserEdits ==
  { [email |-> AdminEmail], [isActive |-> FALSE],
    [role |-> "admin", password |-> "secret"] }

\* The updateData object of PUT /admin/users/:id before the password.
UserUpdateData(body) ==
  [f \in DOMAIN body \cap {"email", "role", "isActive"} |-> body[f]]

\* PUT /admin/users/:id sent by the admin `requester` (req.user.userId);
\* with a password in the body it awaits bcrypt.hash before it writes.
UpdateUser(requester, id, body) ==
  /\ UNCHANGED <<now, vouchers, payments, sessions, nextVoucherId, tasks,
                 everSuccess, nextUserId, ret>>
  /\ IF id \notin DOMAIN users THEN
       /\ resp' = Response("userUpdate", 404, "User not found", id, "")
       /\ UNCHANGED <<users, userTasks>>
     ELSE IF id = requester /\ "isActive" \in DOMAIN body /\ body.isActive = FALSE THEN
       /\ resp' = Response("userUpdate", 400, "Cannot deactivate your own account", id, "")
       /\ UNCHANGED <<users, userTasks>>
     ELSE IF Has(body, "password") THEN
       /\ resp' = NoResponse
       /\ userTasks' = Append(userTasks,
                         UserTask("update", id, users[id], UserUpdateData(body),
                                  body.password))
       /\ UNCHANGED users
     ELSE
       /\ users' = [users EXCEPT ![id] = Assign(@, UserUpdateData(body))]
       /\ resp' = Response("userUpdate", 200, "User updated successfully", id, "")
       /\ UNCHANGED userTasks

\* DELETE /admin/users/:id sent by the admin `requester`. A request that
\* awaits its hash keeps the deleted object as it is now.
DeleteUser(requester, id) ==
  /\ UNCHANGED <<now, vouchers, payments, sessions, nextVoucherId, tasks,
                 everSuccess, nextUserId, ret>>
  /\ IF id \notin DOMAIN users THEN
       /\ resp' = Response("userDelete", 404, "User not found", id, "")
       /\ UNCHANGED <<users, userTasks>>
     ELSE IF id = requester THEN
       /\ resp' = Response("userDelete", 400, "Cannot delete your own account", id, "")
       /\ UNCHANGED <<users, userTasks>>
     ELSE
       /\ users' = [i \in DOMAIN users \ {id} |-> users[i]]
       /\ userTasks' = [n \in DOMAIN userTasks |->
                          IF userTasks[n].kind = "update" /\ userTasks[n].id = id
                            THEN [userTasks[n] EXCEPT !.user = users[id]]
                            ELSE userTasks[n]]
       /\ resp' = Response("userDelete", 200, "User deleted successfully", id, "")

(***************************************************************************)
(* Specifications.  Every one starts from the constructed database and     *)
(* takes the steps of the routes it names, with the requests it names.     *)
(***************************************************************************)
DoInitiate(requests) ==
  \E r \in requests :
    Initiate(r.amount, r.phoneNumber, r.paymentMethod, r.voucherId, r.userId)

DoSettleStart == \E pid \in DOMAIN tasks : SettleStart(pid)

DoSettleFinish ==
  \E pid \in DOMAIN tasks, draw \in {0} \cup ScenarioDraws : SettleFinish(pid, draw)

DoCancel == \E id \in PaymentIds, sms \in SmsOutcomes : Cancel(id, sms)

DoRedeem(codes, userInfos) ==
  \E code \in codes, userInfo \in userInfos : Redeem(code, userInfo)

\* The payment lifecycle: payments for the first voucher, their settlement
\* and cancellation, and the redemption of the vouchers, as time passes.
Next ==
  \/ Tick
  \/ DoRedeem(Codes, UserInfos)
  \/ DoInitiate({r \in GoodRequests : r.voucherId = 1})
  \/ DoSettleStart
  \/ DoSettleFinish
  \/ DoCancel

Spec == Init /\ [][Next]_vars

\* Initiation: every request, and the settlement of the created payments.
NextInitiate ==
  \/ DoInitiate(InitiateRequests)
  \/ DoSettleStart
  \/ DoSettleFinish

SpecInitiate == Init /\ [][NextInitiate]_vars

\* Cancellation of stored and unknown payments, pending or settled: the
\* payments are anonymous payments of the first voucher.
NextCancel ==
  \/ Tick
  \/ DoInitiate({r \in GoodRequests : r.voucherId = 1 /\ r.userId = undefined})
  \/ DoSettleStart
  \/ DoSettleFinish
  \/ DoCancel

SpecCancel == Init /\ [][NextCancel]_vars

\* Settlement of payments of either provider; the first voucher may be
\* redeemed meanwhile.
NextSettle ==
  \/ Tick
  \/ DoRedeem({"MW-AAAAAAAA"}, {undefined})
  \/ DoInitiate({r \in GoodRequests : r.userId = undefined})
  \/ DoSettleStart
  \/ DoSettleFinish

SpecSettle == Init /\ [][NextSettle]_vars

\* Redemption with every code, beside payments and their settlement.
NextRedeem ==
  \/ Tick
  \/ DoRedeem(RedeemCodes, UserInfos)
  \/ DoInitiate({r \in GoodRequests : r.userId = "u1"})
  \/ DoSettleStart
  \/ DoSettleFinish

SpecRedeem == Init /\ [][NextRedeem]_vars

\* Every route that writes a voucher, within the hour of construction:
\* redemption, payments of the first voucher and their settlement, payment
\* update to success and admin correction to success or failed, voucher
\* creation, and the admin voucher edit and delete.
MaxWritePayments == MaxPayments - 1

StatusBodies(bodies) ==
  {body \in bodies : DOMAIN body = {"status"} /\ body.status \in {"success", "failed"}}

NextVoucherWrites ==
  \/ DoRedeem({"MW-AAAAAAAA"}, {"info:u1"})
  \/ /\ Cardinality(DOMAIN payments) < MaxWritePayments
     /\ DoInitiate({r \in GoodRequests : r.voucherId = 1 /\ r.userId = "u1"})
  \/ DoSettleStart
  \/ DoSettleFinish
  \/ \E id \in DOMAIN payments, sms \in SmsOutcomes :
       UpdatePayment(id, [status |-> "success"], sms)
  \/ \E id \in DOMAIN payments, body \in StatusBodies(AdminBodies) :
       AdminUpdatePayment(id, body)
  \/ \E body \in {b \in VoucherBodies : b.dataLimit = undefined} :
       Generate(body, "MW-AAAAAAAA")
  \/ \E body \in {b \in VoucherEdits : DOMAIN b = {"status"}} :
       AdminUpdateVoucher(1, body)
  \/ \E id \in DOMAIN vouchers \ {1} : AdminDeleteVoucher(id)

SpecVoucherWrites == Init /\ [][NextVoucherWrites]_vars

\* The checks of redeem and validate on a voucher: the first sample voucher
\* and a voucher of half an hour, which parseInt makes a voucher of no
\* duration that expires as time passes; a voucher may be made inactive.
FreshCode == "MW-CCCCCCCC"

CheckedCodes == {"MW-AAAAAAAA", FreshCode, "MW-UNKNOWN", undefined}

NextVoucherChecks ==
  \/ Tick
  \/ \E body \in {b \in VoucherBodies : b.duration = 5} : Generate(body, FreshCode)
  \/ DoRedeem(CheckedCodes, UserInfos)
  \/ \E code \in CheckedCodes : Validate(code)
  \/ \E id \in DOMAIN vouchers, body \in {b \in VoucherEdits : DOMAIN b = {"status"}} :
       AdminUpdateVoucher(id, body)

SpecVoucherChecks == Init /\ [][NextVoucherChecks]_vars

\* Redemption of the first sample voucher and of a voucher of no duration,
\* as time passes, beside payments of the first voucher that the admin
\* corrects to success or failed.
NextRedeemTwice ==
  \/ Tick
  \/ \E body \in {b \in VoucherBodies : b.duration = 5} : Generate(body, FreshCode)
  \/ DoRedeem({"MW-AAAAAAAA", FreshCode}, {"info:u1"})
  \/ /\ Cardinality(DOMAIN payments) < MaxWritePayments
     /\ DoInitiate({r \in GoodRequests : r.voucherId = 1 /\ r.userId = "u1"})
  \/ \E id \in DOMAIN payments, body \in StatusBodies(AdminBodies) :
       AdminUpdatePayment(id, body)

SpecRedeemTwice == Init /\ [][NextRedeemTwice]_vars

\* Settlement of anonymous payments of either provider, as time passes,
\* with a notification dispatcher that sends or throws.
NextNotify ==
  \/ Tick
  \/ DoInitiate({r \in GoodRequests : r.userId = undefined})
  \/ DoSettleStart
  \/ \E pid \in DOMAIN tasks, draw \in {0} \cup ScenarioDraws, sms \in SmsOutcomes :
       SettleEnd(pid, draw, sms)

SpecNotify == Init /\ [][NextNotify]_vars

\* processPayment called with an unsupported payment method, beside
\* anonymous payments of the first voucher and their settlement.
NextProcess ==
  \/ DoInitiate({r \in GoodRequests : r.voucherId = 1 /\ r.userId = undefined})
  \/ DoSettleStart
  \/ DoSettleFinish
  \/ \E pid \in DOMAIN payments, paymentMethod \in UnsupportedMethods :
       ProcessUnsupported(pid, paymentMethod)

SpecProcess == Init /\ [][NextProcess]_vars

\* Anonymous payments of the first voucher, their settlement and their
\* cancellation.  The event loop runs every callback that setImmediate has
\* scheduled and fires every timer of a gateway delay, so a settlement
\* step that stays enabled is taken.
NextLive ==
  \/ DoInitiate({r \in GoodRequests : r.voucherId = 1 /\ r.userId = undefined})
  \/ DoSettleStart
  \/ DoSettleFinish
  \/ DoCancel

SpecLive ==
  /\ Init
  /\ [][NextLive]_vars
  /\ WF_vars(DoSettleStart)
  /\ WF_vars(DoSettleFinish)

\* Voucher creation with every body, the admin voucher edit with every
\* edit, and the redemption of the first sample voucher, as time passes.
NextGenerate ==
  \/ Tick
  \/ \E body \in VoucherBodies : Generate(body, FreshCode)
  \/ \E id \in DOMAIN vouchers, body \in VoucherEdits : AdminUpdateVoucher(id, body)
  \/ DoRedeem({"MW-AAAAAAAA"}, {undefined})

SpecGenerate == Init /\ [][NextGenerate]_vars

\* The routes that could touch a session: redemption of the first sample
\* voucher, payments of it, their settlement, update to success, admin
\* correction and cancellation.
NextSessions ==
  \/ DoRedeem({"MW-AAAAAAAA"}, {"info:u1"})
  \/ /\ Cardinality(DOMAIN payments) < MaxWritePayments
     /\ DoInitiate({r \in GoodRequests : r.voucherId = 1 /\ r.userId = "u1"})
  \/ DoSettleStart
  \/ DoSettleFinish
  \/ \E id \in DOMAIN payments, sms \in SmsOutcomes :
       UpdatePayment(id, [status |-> "success"], sms)
  \/ \E id \in DOMAIN payments, body \in StatusBodies(AdminBodies) :
       AdminUpdatePayment(id, body)
  \/ DoCancel

SpecSessions == Init /\ [][NextSessions]_vars

\* The admins that send the user requests (requireAdmin).
Admins == {i \in DOMAIN users : users[i].role = "admin"}

\* The greatest user id, and the most requests that await a hash at once.
MaxUsers == MaxVouchers - 1
MaxUserTasks == MaxPayments - 1

\* The admin user routes: create, update and delete, and the requests
\* that resume after bcrypt.hash.
NextUsers ==
  \/ /\ nextUserId + Len(userTasks) <= MaxUsers
     /\ Len(userTasks) < MaxUserTasks
     /\ \E body \in UserBodies : CreateUserStart(body)
  \/ \E n \in DOMAIN userTasks : UserTaskEnd(n)
  \/ /\ Len(userTasks) < MaxUserTasks
     /\ \E requester \in Admins, id \in 1..nextUserId, body \in UserEdits :
          UpdateUser(requester, id, body)
  \/ \E requester \in Admins, id \in 1..nextUserId : DeleteUser(requester, id)

SpecUsers == Init /\ [][NextUsers]_vars

\* The dashboard statistics beside the routes that change what they count:
\* payments, settlement, admin correction and user creation.
NextStats ==
  \/ GetStats
  \/ /\ Cardinality(DOMAIN payments) < MaxWritePayments
     /\ DoInitiate({r \in GoodRequests : r.voucherId = 1 /\ r.userId = "u1"})
  \/ DoSettleStart
  \/ DoSettleFinish
  \/ \E id \in DOMAIN payments, body \in StatusBodies(AdminBodies) :
       AdminUpdatePayment(id, body)
  \/ /\ nextUserId + Len(userTasks) <= MaxUsers
     /\ Len(userTasks) < MaxUserTasks
     /\ CreateUserStart([email |-> "a@mowave.com", password |-> "secret"])
  \/ \E n \in DOMAIN userTasks : UserTaskEnd(n)

SpecStats == Init /\ [][NextStats]_vars

\* The update methods of the Database, called with stored and unknown ids
\* on the stores that redemption and payment initiation fill.
NextUpdates ==
  \/ DoRedeem({"MW-AAAAAAAA"}, {"info:u1"})
  \/ /\ Cardinality(DOMAIN payments) < MaxWritePayments
     /\ DoInitiate({r \in GoodRequests : r.voucherId = 1 /\ r.userId = "u1"})
  \/ \E id \in 1..nextVoucherId, updates \in VoucherPatches :
       CallUpdateVoucher(id, updates)
  \/ \E id \in 1..MaxPayments, updates \in PaymentPatches :
       CallUpdatePayment(id, updates)
  \/ \E id \in 1..MaxSessions, updates \in SessionPatches :
       CallUpdateSession(id, updates)

SpecUpdates == Init /\ [][NextUpdates]_vars

\* Payments of the first sample voucher and their settlement beside the
\* admin routes on vouchers and payments: voucher edit, voucher delete
\* and payment correction.
NextBound ==
  \/ /\ Cardinality(DOMAIN payments) < MaxWritePayments
     /\ DoInitiate({r \in GoodRequests : r.voucherId = 1 /\ r.userId = "u1"})
  \/ DoSettleStart
  \/ DoSettleFinish
  \/ \E id \in DOMAIN payments, body \in StatusBodies(AdminBodies) :
       AdminUpdatePayment(id, body)
  \/ \E id \in DOMAIN vouchers, body \in {b \in VoucherEdits : DOMAIN b = {"status"}} :
       AdminUpdateVoucher(id, body)
  \/ \E id \in DOMAIN vouchers : AdminDeleteVoucher(id)

SpecBound == Init /\ [][NextBound]_vars

\* The admin voucher edit (of the duration or the status) and delete on
\* every voucher beside the routes that mark a voucher used or free it:
\* redeem, settlement of a payment and the admin correction.
NextUsedVoucher ==
  \/ DoRedeem({"MW-AAAAAAAA"}, {"info:u1"})
  \/ /\ Cardinality(DOMAIN payments) < MaxWritePayments
     /\ DoInitiate({r \in GoodRequests : r.voucherId = 1 /\ r.userId = "u1"})
  \/ DoSettleStart
  \/ DoSettleFinish
  \/ \E id \in DOMAIN payments : AdminUpdatePayment(id, [status |-> "failed"])
  \/ \E id \in DOMAIN vouchers,
        body \in {b \in VoucherEdits : DOMAIN b \in {{"duration"}, {"status"}}} :
       AdminUpdateVoucher(id, body)
  \/ \E id \in DOMAIN vouchers : AdminDeleteVoucher(id)

SpecUsedVoucher == Init /\ [][NextUsedVoucher]_vars

\* Redemption of either sample voucher interleaved with payments of the
\* first one, their settlement and cancellation, and the admin corrections
\* other than success to failed.
NextOneSession ==
  \/ DoRedeem(Codes, {"info:u1"})
  \/ /\ Cardinality(DOMAIN payments) < MaxWritePayments
     /\ DoInitiate({r \in GoodRequests : r.voucherId = 1 /\ r.userId = "u1"})
  \/ DoSettleStart
  \/ DoSettleFinish
  \/ DoCancel
  \/ \E id \in DOMAIN payments, body \in StatusBodies(AdminBodies) :
       /\ ~(payments[id].status = "success" /\ StatusOf(body) = "failed")
       /\ AdminUpdatePayment(id, body)

SpecOneSession == Init /\ [][NextOneSession]_vars

(***************************************************************************)
(* Claims.                                                                 *)
(***************************************************************************)
Terminal == {"success", "failed", "cancelled"}

\* The step is the end of the settlement task of payment p.
SettleEnds(p) ==
  /\ p \in DOMAIN tasks
  /\ tasks[p].pc = "inflight"
  /\ tasks'[p].pc = "done"

\* C1: for every voucher, at most one payment bound to it ever reaches
\* status success, whatever the interleaving of initiate, settlement,
\* redeem and cancel.
C1_AtMostOneSuccessPerVoucher ==
  \A p \in everSuccess, q \in everSuccess :
    payments[p].voucherId = payments[q].voucherId => p = q

\* C2: a payment's status changes only from pending, to success, failed or
\* cancelled; without admin correction a payment that is success, failed or
\* cancelled keeps its status (a cancelled one also when the gateway result
\* arrives).
C2_TerminalStatusKept ==
  [][\A p \in DOMAIN payments :
       /\ payments'[p].status \in {"pending"} \cup Terminal
       /\ payments[p].status \in Terminal
            => payments'[p].status = payments[p].status]_vars

\* C3: when the settlement task of a payment ends, the payment is success
\* or failed; if success, the bound voucher is used and a session of that
\* voucher exists whose endTime - startTime is the voucher's duration.
C3_SettledSuccessHasSession ==
  [][\A p \in DOMAIN payments :
       SettleEnds(p) =>
         /\ payments'[p].status \in {"success", "failed"}
         /\ payments'[p].status = "success" =>
              LET v == payments'[p].voucherId IN
              /\ v \in DOMAIN vouchers'
              /\ vouchers'[v].isUsed
              /\ \E s \in DOMAIN sessions' :
                   /\ sessions'[s].voucherId = v
                   /\ sessions'[s].endTime - sessions'[s].startTime
                        = vouchers'[v].duration]_vars

\* The step answers an initiate request with 201.
InitiateAccepted == resp'.route = "initiate" /\ resp'.code = 201

\* C4: an initiate request that passes all checks creates exactly one new
\* payment, stored pending whatever status the payment data carries, leaves
\* every voucher unchanged and answers status pending while the settlement
\* task is only scheduled; a payment changes only when its started
\* settlement task ends, so after the response.
C4_AcceptedInitiateIsPending ==
  [][/\ InitiateAccepted =>
          LET p == resp'.id IN
          /\ p \notin DOMAIN payments
          /\ DOMAIN payments' = DOMAIN payments \cup {p}
          /\ \A q \in DOMAIN payments : payments'[q] = payments[q]
          /\ payments'[p].status = "pending"
          /\ payments'[p].completedAt = NullTime
          /\ payments'[p].transactionId = null
          /\ resp'.status = "pending"
          /\ vouchers' = vouchers
          /\ p \notin DOMAIN tasks
          /\ tasks'[p].pc = "scheduled"
          /\ \A status \in validStatuses \cup {"refunded"} :
               NewPayment(Assign(payments'[p], [status |-> status]), now).status
                 = "pending"
     /\ \A p \in DOMAIN payments :
          payments'[p] # payments[p] => SettleEnds(p)]_vars

\* C4 happens: a payment has been answered 201 and is pending, its task
\* scheduled, beside an earlier payment that has settled.
C4_Witness ==
  /\ resp.route = "initiate"
  /\ resp.code = 201
  /\ payments[resp.id].status = "pending"
  /\ tasks[resp.id].pc = "scheduled"
  /\ \E q \in DOMAIN payments : tasks[q].pc = "done"

\* C5: a request the middleware lets through is rejected as not found when
\* the voucher id is unknown, else as already used when the voucher is
\* used, else as an amount mismatch when amount differs from the price;
\* a rejection leaves payments, tasks and vouchers unchanged, and a created
\* payment has the amount of its unused voucher's price.
C5_InitiateRejections ==
  [][/\ \A r \in InitiateRequests :
          validatePaymentData(r.amount, r.phoneNumber, r.paymentMethod,
                              r.voucherId) = "next" =>
            VoucherCheck(vouchers, r.voucherId, r.amount) =
              IF r.voucherId \notin DOMAIN vouchers THEN "Voucher not found"
              ELSE IF vouchers[r.voucherId].isUsed THEN "Voucher already used"
              ELSE IF r.amount # vouchers[r.voucherId].price
                THEN "Payment amount does not match voucher price"
              ELSE "ok"
     /\ resp'.route = "initiate" =>
          /\ resp'.code # 201 =>
               /\ resp'.code \in {400, 404}
               /\ UNCHANGED <<payments, tasks, vouchers>>
          /\ resp'.msg = "Voucher not found" => resp'.id \notin DOMAIN vouchers
          /\ resp'.msg = "Voucher already used" =>
               /\ resp'.id \in DOMAIN vouchers
               /\ vouchers[resp'.id].isUsed
          /\ resp'.msg = "Payment amount does not match voucher price" =>
               /\ resp'.id \in DOMAIN vouchers
               /\ ~vouchers[resp'.id].isUsed
          /\ resp'.code = 201 =>
               LET v == payments'[resp'.id].voucherId IN
               /\ v \in DOMAIN vouchers
               /\ ~vouchers[v].isUsed
               /\ payments'[resp'.id].amount = vouchers[v].price]_vars

\* C5 happens: a request is rejected as already used, for a voucher a
\* settled payment has marked, and no payment was created for it.
C5_Witness ==
  /\ resp.route = "initiate"
  /\ resp.code = 400
  /\ resp.msg = "Voucher already used"
  /\ vouchers[resp.id].isUsed
  /\ vouchers[resp.id].price = 1000
  /\ Cardinality(DOMAIN payments) = 1

\* C6: cancelling a pending payment sets its status to cancelled and its
\* cancelledAt to the time of the request, which is not null, and changes
\* none of its other fields; cancelling any other payment is rejected and
\* changes no payment; a cancel changes no voucher.
C6_CancelOnlyPending ==
  [][resp'.route = "cancel" =>
       /\ vouchers' = vouchers
       /\ IF resp'.id \in DOMAIN payments /\ payments[resp'.id].status = "pending"
            THEN /\ now # NullTime
                 /\ payments' = [payments EXCEPT
                                   ![resp'.id].status = "cancelled",
                                   ![resp'.id].cancelledAt = now]
            ELSE /\ resp'.code \in {400, 404}
                 /\ payments' = payments]_vars

\* C6 happens: a cancel of a settled failed payment has been rejected,
\* beside a payment that an earlier cancel has cancelled.
C6_Witness ==
  /\ resp.route = "cancel"
  /\ resp.code = 400
  /\ resp.status = "failed"
  /\ \E q \in DOMAIN payments :
       /\ payments[q].status = "cancelled"
       /\ payments[q].cancelledAt # NullTime

\* The failure scenarios of the gateway of a payment method.
ScenariosOf(paymentMethod) ==
  IF paymentMethod = "mtn_momo" THEN MTNFailureScenarios ELSE AirtelFailureScenarios

\* C7: when the settlement task of a payment ends with a gateway failure,
\* the payment is failed with the failureReason and errorCode of the gateway
\* result, no voucher changes and no session is created.
C7_FailureLeavesVoucher ==
  [][\A p \in DOMAIN payments :
       (SettleEnds(p) /\ payments'[p].status # "success") =>
         /\ payments'[p].status = "failed"
         /\ \E k \in DOMAIN ScenariosOf(payments[p].paymentMethod) :
              LET scenario == ScenariosOf(payments[p].paymentMethod)[k] IN
              /\ payments'[p].failureReason = scenario.message
              /\ payments'[p].errorCode = scenario.error
         /\ vouchers' = vouchers
         /\ sessions' = sessions]_vars

\* C7 happens: an Airtel Money payment has settled as failed and its
\* voucher is unused, with no session.
C7_Witness ==
  \E p \in DOMAIN payments :
    /\ tasks[p].pc = "done"
    /\ payments[p].status = "failed"
    /\ payments[p].errorCode = "INSUFFICIENT_BALANCE"
    /\ ~vouchers[payments[p].voucherId].isUsed
    /\ sessions = <<>>

\* C8: without admin correction, once a voucher is used it stays used and
\* no later step rewrites its usedAt or userId.
C8_UsedOnceNeverRewritten ==
  [][\A v \in DOMAIN vouchers :
       vouchers[v].isUsed =>
         /\ v \in DOMAIN vouchers'
         /\ vouchers'[v].isUsed
         /\ vouchers'[v].usedAt = vouchers[v].usedAt
         /\ vouchers'[v].userId = vouchers[v].userId]_vars

\* C9: in every reachable state every voucher with isUsed = true has a
\* usedAt that is not null.
C9_UsedHasUsedAt ==
  \A v \in DOMAIN vouchers : vouchers[v].isUsed => vouchers[v].usedAt # NullTime

\* C9 happens: a voucher is used again after an admin correction has freed
\* it from a payment that had succeeded.
C9_Witness ==
  /\ \E p \in everSuccess : payments[p].status = "failed"
  /\ \E v \in DOMAIN vouchers :
       /\ vouchers[v].isUsed
       /\ vouchers[v].usedAt # NullTime

\* The step answers a redeem request with 200.
RedeemSucceeded == resp'.route = "redeem" /\ resp'.code = 200

\* C10: a successful redeem sets isUsed, usedAt = now, userId and userInfo
\* on the voucher and changes none of its other fields, creates exactly one
\* new session of that voucher with startTime = now, endTime = startTime +
\* duration, the voucher's duration and dataLimit and isActive = true, and
\* changes no other voucher, no earlier session and no payment.
C10_RedeemEffects ==
  [][RedeemSucceeded =>
       LET v == resp'.id
           s == Cardinality(DOMAIN sessions) + 1
       IN
       /\ v \in DOMAIN vouchers
       /\ ~vouchers[v].isUsed
       /\ DOMAIN vouchers' = DOMAIN vouchers
       /\ \A w \in DOMAIN vouchers \ {v} : vouchers'[w] = vouchers[w]
       /\ \E userInfo \in UserInfos :
            /\ vouchers' = [vouchers EXCEPT
                 ![v].isUsed = TRUE,
                 ![v].usedAt = now,
                 ![v].userId = OrNull(UserIdOf(userInfo)),
                 ![v].userInfo = OrNull(userInfo)]
            /\ sessions'[s].userId = OrNull(UserIdOf(userInfo))
       /\ payments' = payments
       /\ DOMAIN sessions' = DOMAIN sessions \cup {s}
       /\ \A x \in DOMAIN sessions : sessions'[x] = sessions[x]
       /\ sessions'[s].voucherId = v
       /\ sessions'[s].startTime = now
       /\ sessions'[s].endTime = sessions'[s].startTime + vouchers[v].duration
       /\ sessions'[s].duration = vouchers[v].duration
       /\ sessions'[s].dataLimit = vouchers[v].dataLimit
       /\ sessions'[s].isActive = TRUE]_vars

\* C10 happens: a redeem in the second hour has succeeded for a user, and
\* the session it created ends the voucher's duration later.
C10_Witness ==
  /\ resp.route = "redeem"
  /\ resp.code = 200
  /\ now = 1
  /\ vouchers[resp.id].isUsed
  /\ vouchers[resp.id].usedAt = 1
  /\ vouchers[resp.id].userId = "u1"
  /\ \E s \in DOMAIN sessions :
       /\ sessions[s].voucherId = resp.id
       /\ sessions[s].startTime = 1
       /\ sessions[s].endTime = 1 + vouchers[resp.id].duration

\* C11: a redeem of an unused voucher whose expiresAt is strictly earlier
\* than now is rejected as expired and changes no voucher, session or
\* payment; a redeem of an unused voucher at or before its expiresAt
\* succeeds.
C11_ExpiredRedeemRejected ==
  [][(/\ resp'.route = "redeem"
      /\ resp'.id \in DOMAIN vouchers
      /\ ~vouchers[resp'.id].isUsed) =>
       IF vouchers[resp'.id].expiresAt < now
         THEN /\ resp'.code = 400
              /\ resp'.msg = "Voucher has expired"
              /\ UNCHANGED <<vouchers, sessions, payments>>
         ELSE resp'.code = 200]_vars

\* C11 happens: a redeem of an unused voucher past its expiresAt has been
\* rejected as expired, after another voucher was redeemed at the very time
\* of its expiresAt.
C11_Witness ==
  /\ resp.route = "redeem"
  /\ resp.msg = "Voucher has expired"
  /\ ~vouchers[resp.id].isUsed
  /\ vouchers[resp.id].expiresAt < now
  /\ \E w \in DOMAIN vouchers :
       /\ vouchers[w].isUsed
       /\ vouchers[w].usedAt = vouchers[w].expiresAt

\* C12 as stated, its last part: no two sessions are of the same voucher,
\* that is, no two redeem calls for the same code both succeed.
C12_RedeemOncePerCode ==
  \A s \in DOMAIN sessions, t \in DOMAIN sessions :
    sessions[s].voucherId = sessions[t].voucherId => s = t

\* C12: a redeem of a used voucher is rejected as already used, expired or
\* not, and changes no voucher and no session; a redeem succeeds only for
\* an unused voucher; and a used voucher becomes unused only by an admin
\* correction that forces a success payment of that voucher to failed, so
\* two redeem calls for the same code both succeed only with such a
\* correction between them.
C12_UsedRedeemRejected ==
  [][/\ (/\ resp'.route = "redeem"
         /\ resp'.id \in DOMAIN vouchers
         /\ vouchers[resp'.id].isUsed) =>
          /\ resp'.code = 400
          /\ resp'.msg = "Voucher has already been used"
          /\ UNCHANGED <<vouchers, sessions>>
     /\ (resp'.route = "redeem" /\ resp'.code = 200) => ~vouchers[resp'.id].isUsed
     /\ \A v \in DOMAIN vouchers :
          (/\ vouchers[v].isUsed
           /\ v \in DOMAIN vouchers' => ~vouchers'[v].isUsed) =>
            /\ resp'.route = "adminUpdate"
            /\ resp'.status = "failed"
            /\ payments[resp'.id].status = "success"
            /\ payments[resp'.id].voucherId = v]_vars

\* C12 happens: a redeem of a voucher that is used and past its expiresAt
\* has been rejected as already used.
C12_Witness ==
  /\ resp.route = "redeem"
  /\ resp.msg = "Voucher has already been used"
  /\ vouchers[resp.id].isUsed
  /\ vouchers[resp.id].expiresAt < now
  /\ \E s \in DOMAIN sessions : sessions[s].voucherId = resp.id

\* C13: validate reports the first that applies of unknown code, isUsed,
\* status other than active, and now later than expiresAt, and succeeds
\* otherwise; it changes no voucher, payment or session.
C13_ValidateOrder ==
  [][resp'.route = "validate" =>
       /\ UNCHANGED <<vouchers, payments, sessions>>
       /\ IF resp'.id \notin DOMAIN vouchers
            THEN /\ resp'.code \in {400, 404}
                 /\ resp'.msg \in {"Voucher code is required", "Invalid voucher code"}
            ELSE LET voucher == vouchers[resp'.id] IN
                 /\ resp'.msg =
                      IF voucher.isUsed THEN "Voucher has already been used"
                      ELSE IF voucher.status # "active" THEN "Voucher is not active"
                      ELSE IF now > voucher.expiresAt THEN "Voucher has expired"
                      ELSE "Voucher is valid"
                 /\ resp'.code = IF resp'.msg = "Voucher is valid" THEN 200 ELSE 400]_vars

\* C13 happens: validate has reported a voucher that is inactive and past
\* its expiresAt as not active, and a used one exists.
C13_Witness ==
  /\ resp.route = "validate"
  /\ resp.msg = "Voucher is not active"
  /\ vouchers[resp.id].status = "inactive"
  /\ vouchers[resp.id].expiresAt < now
  /\ \E w \in DOMAIN vouchers : vouchers[w].isUsed /\ vouchers[w].status = "inactive"

\* C14: an admin correction forcing a success payment to failed frees the
\* bound voucher, one forcing a pending or failed payment to success marks
\* the bound voucher used and sets completedAt, the payment ends with the
\* requested status, and a step that changes the status of a payment that
\* is success, failed or cancelled is an admin correction.
C14_OnlyAdminChangesTerminal ==
  [][/\ resp'.route = "adminUpdate" /\ resp'.code = 200 =>
          LET p == resp'.id
              v == payments[p].voucherId
          IN
          /\ payments'[p].status = resp'.status
          /\ (payments[p].status = "success" /\ resp'.status = "failed"
                /\ v \in DOMAIN vouchers) =>
               /\ ~vouchers'[v].isUsed
               /\ vouchers'[v].usedAt = NullTime
               /\ vouchers'[v].userId = null
          /\ (payments[p].status \in {"pending", "failed"}
                /\ resp'.status = "success" /\ v \in DOMAIN vouchers) =>
               /\ vouchers'[v].isUsed
               /\ vouchers'[v].usedAt # NullTime
               /\ payments'[p].completedAt = now
     /\ \A p \in DOMAIN payments :
          (/\ payments[p].status \in Terminal
           /\ payments'[p].status # payments[p].status) =>
            resp'.route = "adminUpdate"]_vars

\* C15: when the notification that follows a gateway result throws, the
\* settlement is applied and kept: the payment is success or failed with
\* completedAt = now and, on success, its voucher is used; the task ends and
\* no other task changes, and every task that has not ended can still take
\* its next step.
C15_NotificationFailureSwallowed ==
  [][/\ \A p \in DOMAIN tasks :
          (tasks[p].pc = "inflight" /\ tasks'[p].notification = "throws") =>
            /\ tasks'[p].pc = "done"
            /\ payments'[p].status \in {"success", "failed"}
            /\ payments'[p].completedAt = now
            /\ payments'[p].status = "success" =>
                 /\ vouchers'[payments'[p].voucherId].isUsed
                 /\ vouchers'[payments'[p].voucherId].usedAt = now
            /\ \A q \in DOMAIN tasks \ {p} : tasks'[q] = tasks[q]
     /\ \A q \in DOMAIN tasks :
          /\ tasks[q].pc = "scheduled" => ENABLED SettleStart(q)
          /\ tasks[q].pc = "inflight" => ENABLED SettleEnd(q, 0, "sent")]_vars

\* C15 happens: a payment settled as success with a notification that threw
\* and its voucher is used, and a payment has settled at a later time.
C15_Witness ==
  \E p \in DOMAIN tasks, q \in DOMAIN tasks :
    /\ tasks[p].pc = "done"
    /\ tasks[p].notification = "throws"
    /\ payments[p].status = "success"
    /\ vouchers[payments[p].voucherId].isUsed
    /\ tasks[q].pc = "done"
    /\ payments[q].completedAt > payments[p].completedAt

\* C16: when processPayment is called with an unsupported payment method,
\* the payment ends failed with errorCode PROCESSING_ERROR, no voucher
\* changes, and processPayment returns a failure result and does not throw.
C16_ProcessingErrorReturned ==
  [][resp'.route = "processPayment" =>
       /\ payments'[resp'.id].status = "failed"
       /\ payments'[resp'.id].errorCode = "PROCESSING_ERROR"
       /\ vouchers' = vouchers
       /\ resp'.msg = "returns failure"]_vars

\* C17: every payment created by initiate eventually has a status among
\* success, failed and cancelled, when the settlement steps are taken
\* fairly and no status update is applied.
C17_EventuallyTerminal ==
  \A p \in 1..MaxPayments :
    (p \in DOMAIN payments)
      ~> (p \in DOMAIN payments /\ payments[p].status \in Terminal)

\* C17 happens: a payment has been settled by its task and another has
\* been cancelled while its task had not ended.
C17_Witness ==
  \E p \in DOMAIN payments, q \in DOMAIN payments :
    /\ tasks[p].pc = "done"
    /\ payments[p].status \in {"success", "failed"}
    /\ tasks[q].pc # "done"
    /\ payments[q].status = "cancelled"

\* The messages initiate may reject with under C18: a voucher that is
\* unknown or used, an amount that is not the price or out of range, a
\* phone number that is not 256 and 9 digits, a payment method that is
\* neither mtn_momo nor airtel_money, a missing voucher id.
C18_Rejections ==
  { "Voucher not found", "Voucher already used",
    "Payment amount does not match voucher price",
    "Amount must be between 1000 and 50000 UGX",
    "Invalid phone number format. Use 256XXXXXXXXX",
    "Payment method must be mtn_momo or airtel_money",
    "Voucher ID is required" }

\* C18: an initiate request that names an existing unused voucher with its
\* price as amount, a phone number of 256 and 9 digits and a payment method
\* mtn_momo or airtel_money is accepted: a rejection has one of the other
\* reasons, and an accepted request is answered pending with a payment
\* stored.
C18_WellFormedAccepted ==
  [][resp'.route = "initiate" =>
       IF resp'.code = 201
         THEN /\ resp'.status = "pending"
              /\ resp'.id \in DOMAIN payments'
         ELSE resp'.msg \in C18_Rejections]_vars

\* C19: a generation request is rejected, creating no voucher, when its
\* duration or price is missing, zero or negative, so no stored voucher has
\* a negative duration or price; an accepted request creates one voucher
\* that is active, unused, with usedAt and userId null and expiresAt =
\* creation time + duration.
C19_GenerateValidated ==
  [][resp'.route = "generate" =>
       IF resp'.code = 201
         THEN /\ resp'.id \notin DOMAIN vouchers
              /\ DOMAIN vouchers' = DOMAIN vouchers \cup {resp'.id}
              /\ \A w \in DOMAIN vouchers : vouchers'[w] = vouchers[w]
              /\ vouchers'[resp'.id].duration >= 0
              /\ vouchers'[resp'.id].price >= 0
              /\ vouchers'[resp'.id].status = "active"
              /\ ~vouchers'[resp'.id].isUsed
              /\ vouchers'[resp'.id].usedAt = NullTime
              /\ vouchers'[resp'.id].userId = null
              /\ vouchers'[resp'.id].expiresAt = now + vouchers'[resp'.id].duration
         ELSE vouchers' = vouchers]_vars

\* C20: a voucher's expiresAt is createdAt + duration, changes only when
\* an admin edits the duration of an unused voucher, and no step moves it
\* to a later time.
C20_ExpiresAtNeverExtended ==
  [][/\ \A v \in DOMAIN vouchers' :
          vouchers'[v].expiresAt = vouchers'[v].createdAt + vouchers'[v].duration
     /\ \A v \in DOMAIN vouchers \cap DOMAIN vouchers' :
          /\ vouchers'[v].expiresAt <= vouchers[v].expiresAt
          /\ vouchers'[v].expiresAt # vouchers[v].expiresAt =>
               /\ resp'.route = "adminVoucherUpdate"
               /\ resp'.id = v
               /\ ~vouchers[v].isUsed]_vars

\* C21: a step changes the sessions only when it is a successful redeem,
\* which adds exactly one session and changes no earlier one; so the
\* number of sessions is the number of successful redeems, and settlement,
\* payment update, admin correction and cancel leave the sessions as they
\* are.
C21_SessionsOnlyByRedeem ==
  [][IF resp'.route = "redeem" /\ resp'.code = 200
       THEN /\ Cardinality(DOMAIN sessions') = Cardinality(DOMAIN sessions) + 1
            /\ \A x \in DOMAIN sessions :
                 x \in DOMAIN sessions' /\ sessions'[x] = sessions[x]
       ELSE sessions' = sessions]_vars

\* C21 happens: a payment has succeeded and an admin correction has made it
\* failed, and the only session is the one of a redeem.
C21_Witness ==
  /\ Cardinality(DOMAIN sessions) = 1
  /\ \E p \in everSuccess :
       /\ payments[p].status = "failed"
       /\ tasks[p].pc = "done"

\* C23: no two stored users have the same email.
C23_UniqueEmails ==
  \A i, j \in DOMAIN users : i # j => users[i].email # users[j].email

\* The sum of the amounts of the payments in S.
RECURSIVE SumOfAmounts(_)
SumOfAmounts(S) ==
  IF S = {} THEN 0
  ELSE LET p == CHOOSE q \in S : TRUE
       IN  payments[p].amount + SumOfAmounts(S \ {p})

\* C22: getStats returns the number of vouchers, of used vouchers, of
\* available vouchers (total minus used), of payments, of successful
\* payments, the sum of the amounts of the successful payments and the
\* number of stored users; the call changes no state.
C22_GetStats ==
  [][resp'.route = "dashboard" =>
       /\ ret'.totalVouchers = Cardinality(DOMAIN vouchers)
       /\ ret'.usedVouchers = Cardinality({v \in DOMAIN vouchers : vouchers[v].isUsed})
       /\ ret'.availableVouchers = ret'.totalVouchers - ret'.usedVouchers
       /\ ret'.totalPayments = Cardinality(DOMAIN payments)
       /\ ret'.successfulPayments =
            Cardinality({p \in DOMAIN payments : payments[p].status = "success"})
       /\ ret'.totalRevenue =
            SumOfAmounts({p \in DOMAIN payments : payments[p].status = "success"})
       /\ ret'.activeUsers = Cardinality(DOMAIN users)
       /\ DOMAIN ret' = {"totalVouchers", "usedVouchers", "availableVouchers",
                         "totalPayments", "successfulPayments", "totalRevenue",
                         "activeUsers"}
       /\ UNCHANGED <<now, vouchers, payments, sessions, nextVoucherId, tasks,
                      users, nextUserId, userTasks>>]_vars

\* C22 happens: the dashboard has just read the statistics of a store with
\* a used voucher, revenue and a second user.
C22_Witness ==
  /\ resp.route = "dashboard"
  /\ ret.totalRevenue > 0
  /\ ret.usedVouchers = 1
  /\ ret.availableVouchers = 1
  /\ ret.activeUsers = 2

\* C24: for a stored voucher that is unused, not past its expiresAt and
\* not active, validate answers 400 "Voucher is not active", while redeem
\* succeeds: it marks the voucher used and opens a session.
C24_RedeemIgnoresStatus ==
  [][(/\ resp'.route \in {"validate", "redeem"}
      /\ resp'.id \in DOMAIN vouchers
      /\ ~vouchers[resp'.id].isUsed
      /\ now <= vouchers[resp'.id].expiresAt
      /\ vouchers[resp'.id].status # "active") =>
       IF resp'.route = "validate"
         THEN /\ resp'.code = 400
              /\ resp'.msg = "Voucher is not active"
              /\ UNCHANGED <<vouchers, sessions>>
         ELSE /\ resp'.code = 200
              /\ vouchers'[resp'.id].isUsed
              /\ Cardinality(DOMAIN sessions') = Cardinality(DOMAIN sessions) + 1]_vars

\* C24 happens: an inactive voucher that was unused and unexpired has just
\* been redeemed, and it has a session.
C24_Witness ==
  /\ resp.route = "redeem"
  /\ resp.code = 200
  /\ vouchers[resp.id].status = "inactive"
  /\ vouchers[resp.id].usedAt = now
  /\ \E x \in DOMAIN sessions : sessions[x].voucherId = resp.id

\* The frame of an update of `store` into `after` for `id` and `updates`
\* that returned `value`.
C25_Frame(store, after, id, updates, value) ==
  IF id \notin DOMAIN store
    THEN value = null /\ after = store
    ELSE /\ DOMAIN after = DOMAIN store
         /\ DOMAIN after[id] = DOMAIN store[id] \cup DOMAIN updates
         /\ \A f \in DOMAIN updates : after[id][f] = updates[f]
         /\ \A f \in DOMAIN store[id] \ DOMAIN updates : after[id][f] = store[id][f]
         /\ \A i \in DOMAIN store \ {id} : after[i] = store[i]
         /\ value = after[id]

\* C25: updateVoucher, updatePayment and updateSession return null and
\* change nothing for an unknown id; for a stored id they overwrite exactly
\* the fields of the patch, keep every other field, leave every other
\* entity unchanged and return the updated entity.
C25_UpdateFrame ==
  [][resp'.route \in {"db.updateVoucher", "db.updatePayment", "db.updateSession"} =>
       /\ resp'.route = "db.updateVoucher" =>
            /\ C25_Frame(vouchers, vouchers', ret'.id, ret'.updates, ret'.value)
            /\ UNCHANGED <<payments, sessions, users>>
       /\ resp'.route = "db.updatePayment" =>
            /\ C25_Frame(payments, payments', ret'.id, ret'.updates, ret'.value)
            /\ UNCHANGED <<vouchers, sessions, users>>
       /\ resp'.route = "db.updateSession" =>
            /\ C25_Frame(sessions, sessions', ret'.id, ret'.updates, ret'.value)
            /\ UNCHANGED <<vouchers, payments, users>>]_vars

\* C25 happens: updateSession has just patched a stored session with a new
\* and an old field beside a patched payment, and an unknown id has been
\* answered null before.
C25_Witness ==
  /\ resp.route = "db.updateSession"
  /\ ret.id \in DOMAIN sessions
  /\ "closedBy" \in DOMAIN sessions[ret.id]
  /\ sessions[ret.id].closedBy = "admin"
  /\ sessions[ret.id].isActive = FALSE
  /\ \E p \in DOMAIN payments : payments[p].status = "failed"

\* C26: every payment whose status is success is bound to a voucher that
\* is stored and has isUsed = true.
C26_SuccessBoundToUsedVoucher ==
  \A p \in DOMAIN payments :
    payments[p].status = "success" =>
      /\ payments[p].voucherId \in DOMAIN vouchers
      /\ vouchers[payments[p].voucherId].isUsed

\* C27: a PUT /payments/:id or DELETE /payments/:id request that is
\* answered with an error status leaves every payment and every voucher
\* unchanged.
C27_ErrorLeavesState ==
  [][(resp'.route \in {"update", "cancel"} /\ resp'.code >= 400) =>
       UNCHANGED <<payments, vouchers>>]_vars

C29_UsedVoucherFrozen ==
  [][/\ (/\ resp'.route \in {"adminVoucherUpdate", "adminVoucherDelete"}
         /\ resp'.id \in DOMAIN vouchers
         /\ vouchers[resp'.id].isUsed) =>
          /\ resp'.code = 400
          /\ vouchers' = vouchers
     /\ \A v \in DOMAIN vouchers :
          vouchers[v].isUsed =>
            /\ v \in DOMAIN vouchers'
            /\ \A f \in {"duration", "price", "dataLimit", "status", "expiresAt"} :
                 vouchers'[v][f] = vouchers[v][f]]_vars

\* C29 happens: the admin delete of a used voucher has just been refused,
\* and that voucher had been edited before it was used.
C29_Witness ==
  /\ resp.route = "adminVoucherDelete"
  /\ resp.code = 400
  /\ vouchers[resp.id].isUsed
  /\ vouchers[resp.id].status = "inactive"

\* C30: without an admin correction from success to failed, no two
\* sessions are of the same voucher, however redeem, initiate, settlement,
\* cancel and the other corrections interleave.
C30_OneSessionPerVoucher ==
  \A x, y \in DOMAIN sessions :
    sessions[x].voucherId = sessions[y].voucherId => x = y

\* C30 happens: a voucher with a session and a success payment has just
\* been refused a second redemption, and the other voucher has a session
\* too.
C30_Witness ==
  /\ resp.route = "redeem"
  /\ resp.msg = "Voucher has already been used"
  /\ \E x \in DOMAIN sessions : sessions[x].voucherId = resp.id
  /\ \E p \in DOMAIN payments :
       payments[p].voucherId = resp.id /\ payments[p].status = "success"
  /\ Cardinality(DOMAIN sessions) = 2

=============================================================================
